---- MODULE Spec2Model ----
(***************************************************************************)
(* A model of the lisbeth-error crate: positions, spans, spanned strings,  *)
(* annotated errors and the error reporter.                                *)
(*                                                                         *)
(* A Rust `str` is modelled as a sequence of characters; every character   *)
(* has a UTF-8 width, so that byte indices (offsets, split indices) and    *)
(* character counts (columns) are different numbers, as in the code.       *)
(* u32 / usize values stay far below 2^32 within the bounds below, so      *)
(* additions are plain. A usize subtraction that would go below zero is    *)
(* reported as a panic of the operation (what a build with overflow checks *)
(* does; a build without them wraps); no such subtraction is reached for   *)
(* spans sliced from the reporter's own input.                             *)
(* A panicking operation returns [panicked |-> TRUE, ...]; the other       *)
(* fields of such a record carry no meaning.                               *)
(***************************************************************************)
EXTENDS Integers, Sequences, FiniteSets, TLC

\* ------------------------------------------------------------------ bounds

\* Longest string (in characters) handed to the position and slice operations.
MaxLen == 3

\* Largest line / col / offset of the hand-built positions of SpecPos.
MaxCoord == 2

\* Longest content (in characters) of the input unit of SpecError and
\* SpecReport, and of the input of SpecLexer.
MaxSrc == 2

\* Most annotations added to one AnnotatedError.
MaxAnn == 2

\* ------------------------------------------------------------- characters

\* '\n', the only character advance_with and code_snippet_for single out.
LF == "LF"

\* The alphabet: an ASCII letter, the line feed and a two-byte letter
\* (such as the e-acute of the crate's tests).
Chars == {"a", LF, "E"}

\* char::len_utf8, as used by str::len and str::char_indices.
len_utf8(c) == IF c = "E" THEN 2 ELSE 1

\* All strings of at most n characters.
Strs(n) == UNION {[1..k -> Chars] : k \in 0..n}

\* str::len: the length in bytes.
RECURSIVE len(_)
len(s) == IF s = <<>> THEN 0 ELSE len_utf8(Head(s)) + len(Tail(s))

\* str::char_indices: the sequence of (byte index, char) pairs.
char_indices(s) == [k \in 1..Len(s) |-> <<len(SubSeq(s, 1, k - 1)), s[k]>>]

\* str::is_char_boundary.
is_char_boundary(s, idx) ==
    \E k \in 0..Len(s) : len(SubSeq(s, 1, k)) = idx

\* str::split_at, for an index that is a char boundary (it panics otherwise).
str_split_at(s, idx) ==
    LET k == CHOOSE k \in 0..Len(s) : len(SubSeq(s, 1, k)) = idx
    IN  <<SubSeq(s, 1, k), SubSeq(s, k + 1, Len(s))>>

\* -------------------------------------------------------------- Position

Position(l, c, o) == [line |-> l, col |-> c, offset |-> o]

BEGINNING == Position(0, 0, 0)

\* advance_chars with the line kept at a line feed.
RECURSIVE advance_chars_same_line(_, _, _)
advance_chars_same_line(line, col, s) ==
    IF s = <<>> THEN <<line, col>>
    ELSE IF Head(s) = LF THEN advance_chars_same_line(line, 0, Tail(s))
    ELSE advance_chars_same_line(line, col + 1, Tail(s))

\* advance_chars with the column kept across a line feed.
RECURSIVE advance_chars_keep_col(_, _, _)
advance_chars_keep_col(line, col, s) ==
    IF s = <<>> THEN <<line, col>>
    ELSE IF Head(s) = LF THEN advance_chars_keep_col(line + 1, col, Tail(s))
    ELSE advance_chars_keep_col(line, col + 1, Tail(s))

\* The closure of advance_with: one step of s.chars().for_each(..) on the
\* mutable pair (line, col).
RECURSIVE advance_chars(_, _, _)
advance_chars(line, col, s) ==
    IF s = <<>> THEN <<line, col>>
    ELSE IF Head(s) = LF THEN advance_chars(line + 1, 0, Tail(s))
    ELSE advance_chars(line, col + 1, Tail(s))

\* advance_with with the offset advanced by the number of characters.
advance_with_char_count(self, s) ==
    LET lc == advance_chars(self.line, self.col, s)
    IN  Position(lc[1], lc[2], self.offset + Len(s))

advance_with(self, s) ==
    LET lc == advance_chars(self.line, self.col, s)
    IN  Position(lc[1], lc[2], self.offset + len(s))

\* u32::cmp.
u32_cmp(a, b) == IF a < b THEN "Less" ELSE IF a = b THEN "Equal" ELSE "Greater"

\* Position::cmp as compiled under cfg(debug): the offset ordering, after an
\* assertion on the (line, col) ordering.
cmp_debug(self, other) ==
    LET offset_provided == u32_cmp(self.offset, other.offset)
        line_cmp == u32_cmp(self.line, other.line)
        lc_provided == IF line_cmp = "Equal" THEN u32_cmp(self.col, other.col)
                       ELSE line_cmp
    IN  [panicked |-> ~(offset_provided # lc_provided), ord |-> offset_provided]

\* A comparison by line, then column.
cmp_by_line_col(self, other) ==
    LET line_cmp == u32_cmp(self.line, other.line)
    IN  [panicked |-> FALSE,
         ord |-> IF line_cmp = "Equal" THEN u32_cmp(self.col, other.col)
                 ELSE line_cmp]

\* Position::cmp as compiled under cfg(not(debug)).
cmp_not_debug(self, other) ==
    [panicked |-> FALSE, ord |-> u32_cmp(self.offset, other.offset)]

\* Position::cmp of the build: cfg selects one of the two bodies.
position_cmp(debug, self, other) ==
    IF debug THEN cmp_debug(self, other) ELSE cmp_not_debug(self, other)

\* ------------------------------------------------------------------ Span

Span(s, e) == [start |-> s, end |-> e]

\* split_with whose right half keeps the start of the whole span.
split_with_right_from_start(self, mid) ==
    <<Span(self.start, mid), Span(self.start, self.end)>>

split_with(self, mid) == <<Span(self.start, mid), Span(mid, self.end)>>

of_file(input) == Span(BEGINNING, advance_with(BEGINNING, input))

\* next_char taken after the start of the span.
next_char_of_start(self) == Span(self.start, advance_with(self.start, <<"a">>))

\* Span::next_char; the " " it advances over is a character of one byte that
\* is no line feed, as "a" is.
next_char(self) == Span(self.end, advance_with(self.end, <<"a">>))

\* ------------------------------------------------------------ SpannedStr

SpannedStr(sp, c) == [span |-> sp, content |-> c]

input_file(content) == SpannedStr(of_file(content), content)

\* SpannedStr::assemble, with its two debug assertions.
assemble(content, sp) ==
    [panicked |-> ~(sp.start = BEGINNING /\ sp.end.offset = len(content)),
     ret |-> SpannedStr(sp, content)]

\* ErrorReporter::spanned_str of a reporter built on content by input_file,
\* non_file_input or from_path: its span field is Span::of_file(content).
spanned_str(content) == assemble(content, of_file(content))

\* split_at_ok with the middle position counted from the beginning of the
\* input unit instead of the start of the slice.
split_at_ok_mid_of_file(self, idx) ==
    LET parts == str_split_at(self.content, idx)
        mid == advance_with(BEGINNING, parts[1])
        spans == split_with(self.span, mid)
    IN  <<SpannedStr(spans[1], parts[1]), SpannedStr(spans[2], parts[2])>>

\* SpannedStr::split_at for an index str::split_at accepts.
split_at_ok(self, idx) ==
    LET parts == str_split_at(self.content, idx)
        mid == advance_with(self.span.start, parts[1])
        spans == split_with(self.span, mid)
    IN  <<SpannedStr(spans[1], parts[1]), SpannedStr(spans[2], parts[2])>>

\* A split_at that moves the index back to the nearest char boundary of the
\* content instead of panicking.
split_at_floor(self, idx) ==
    LET ok == {i \in 0..idx : is_char_boundary(self.content, i)}
        n == CHOOSE i \in ok : \A j \in ok : j <= i
    IN  [panicked |-> FALSE, ret |-> split_at_ok(self, n)]

\* SpannedStr::split_at: str::split_at panics when idx is past the end or
\* inside a character, and then nothing is returned.
split_at(self, idx) ==
    IF is_char_boundary(self.content, idx)
    THEN [panicked |-> FALSE, ret |-> split_at_ok(self, idx)]
    ELSE [panicked |-> TRUE, ret |-> <<self, self>>]

\* take_while_idx counting characters (enumerate) instead of bytes.
take_while_idx_enumerate(self, f) ==
    LET failing == {k \in 1..Len(self.content) : self.content[k] \notin f}
    IN  IF failing = {} THEN len(self.content)
        ELSE (CHOOSE k \in failing : \A j \in failing : k <= j) - 1

\* The index take_while computes: the byte index of the first character the
\* predicate rejects, or the length. A predicate is the set of characters it
\* accepts.
take_while_idx(self, f) ==
    LET ci == char_indices(self.content)
        failing == {k \in 1..Len(ci) : ci[k][2] \notin f}
    IN  IF failing = {} THEN len(self.content)
        ELSE ci[CHOOSE k \in failing : \A j \in failing : k <= j][1]

take_while(self, f) == split_at(self, take_while_idx(self, f))

\* -------------------------------------------------------- AnnotatedError

Annotation(sp, content) == [span |-> sp, content |-> content]

new(sp, msg) == [span |-> sp, msg |-> msg, annotations |-> <<>>]

with_annotation(self, sp, msg) ==
    [self EXCEPT !.annotations = Append(@, Annotation(sp, msg))]

\* all_spans without the chained primary span (when there are annotations).
all_spans_annotations_only(self) ==
    IF self.annotations = <<>> THEN <<self.span>>
    ELSE [i \in 1..Len(self.annotations) |-> self.annotations[i].span]

\* The spans of the annotations, in call order, then the primary span.
all_spans(self) ==
    [i \in 1..Len(self.annotations) |-> self.annotations[i].span]
        \o <<self.span>>

\* Iterator::min over positions: a left fold that keeps the accumulator
\* unless it compares Greater (the first least element wins). acc is a
\* record [panicked, val]; a panic of Position::cmp ends the fold.
RECURSIVE iter_min(_, _, _)
iter_min(debug, acc, ps) ==
    IF ps = <<>> \/ acc.panicked THEN acc
    ELSE LET c == position_cmp(debug, acc.val, Head(ps))
         IN  iter_min(debug,
                      [panicked |-> c.panicked,
                       val |-> IF c.ord = "Greater" THEN Head(ps) ELSE acc.val],
                      Tail(ps))

\* Iterator::max over positions: a left fold that keeps the accumulator only
\* when it compares Greater (the last greatest element wins).
RECURSIVE iter_max(_, _, _)
iter_max(debug, acc, ps) ==
    IF ps = <<>> \/ acc.panicked THEN acc
    ELSE LET c == position_cmp(debug, acc.val, Head(ps))
         IN  iter_max(debug,
                      [panicked |-> c.panicked,
                       val |-> IF c.ord = "Greater" THEN acc.val ELSE Head(ps)],
                      Tail(ps))

\* AnnotatedError::bounds. all_spans is never empty, so the unwraps succeed.
bounds(debug, self) ==
    LET spans == all_spans(self)
        starts == [i \in 1..Len(spans) |-> spans[i].start]
        ends == [i \in 1..Len(spans) |-> spans[i].end]
        min == iter_min(debug, [panicked |-> FALSE, val |-> Head(starts)],
                        Tail(starts))
        max == iter_max(debug, [panicked |-> FALSE, val |-> Head(ends)],
                        Tail(ends))
    IN  [panicked |-> min.panicked \/ max.panicked,
         min |-> min.val, max |-> max.val]

\* reporter::Annotation, the entries of the matrix.
ReportedAnnotation(col_number, length, txt) ==
    [col_number |-> col_number, length |-> length, text |-> txt]

\* fill_matrix with the line of the annotation used as the row index.
RECURSIVE fill_matrix_absolute_line(_, _, _)
fill_matrix_absolute_line(matrix, anns, first_line_number) ==
    IF anns = <<>> THEN [panicked |-> FALSE, matrix |-> matrix, why |-> ""]
    ELSE LET annotation == Head(anns)
             line_idx == annotation.span.start.line
             col_number == annotation.span.start.col
             length == annotation.span.end.col - col_number
             ann == ReportedAnnotation(col_number, length, annotation.content)
         IN  IF \/ annotation.span.start.line # annotation.span.end.line
                \/ length < 0
                \/ line_idx >= Len(matrix)
             THEN [panicked |-> TRUE, matrix |-> matrix, why |-> "other"]
             ELSE fill_matrix_absolute_line(
                      [matrix EXCEPT ![line_idx + 1] = Append(@, ann)],
                      Tail(anns), first_line_number)

\* fill_matrix without the assertion on the lines of the span.
RECURSIVE fill_matrix_no_assert(_, _, _)
fill_matrix_no_assert(matrix, anns, first_line_number) ==
    IF anns = <<>> THEN [panicked |-> FALSE, matrix |-> matrix, why |-> ""]
    ELSE LET annotation == Head(anns)
             line_idx == annotation.span.start.line - first_line_number
             col_number == annotation.span.start.col
             length == annotation.span.end.col - col_number
             ann == ReportedAnnotation(col_number, length, annotation.content)
         IN  IF line_idx < 0 \/ length < 0 \/ line_idx >= Len(matrix)
             THEN [panicked |-> TRUE, matrix |-> matrix, why |-> "other"]
             ELSE fill_matrix_no_assert(
                      [matrix EXCEPT ![line_idx + 1] = Append(@, ann)],
                      Tail(anns), first_line_number)

\* The loop of error_matrix over the annotations, in call order. It panics
\* on a usize subtraction below zero, on the assertion that the span is on
\* one line, and on a row index outside the matrix, in the order of the
\* code; why is the message of the panic.
RECURSIVE fill_matrix(_, _, _)
fill_matrix(matrix, anns, first_line_number) ==
    IF anns = <<>> THEN [panicked |-> FALSE, matrix |-> matrix, why |-> ""]
    ELSE LET annotation == Head(anns)
             line_idx == annotation.span.start.line - first_line_number
             col_number == annotation.span.start.col
             length == annotation.span.end.col - col_number
             ann == ReportedAnnotation(col_number, length, annotation.content)
         IN  IF line_idx < 0
             THEN [panicked |-> TRUE, matrix |-> matrix,
                   why |-> "attempt to subtract with overflow"]
             ELSE IF annotation.span.start.line # annotation.span.end.line
             THEN [panicked |-> TRUE, matrix |-> matrix,
                   why |-> "Multiline spans are not supported"]
             ELSE IF length < 0
             THEN [panicked |-> TRUE, matrix |-> matrix,
                   why |-> "attempt to subtract with overflow"]
             ELSE IF line_idx >= Len(matrix)
             THEN [panicked |-> TRUE, matrix |-> matrix,
                   why |-> "index out of bounds"]
             ELSE fill_matrix([matrix EXCEPT ![line_idx + 1] = Append(@, ann)],
                              Tail(anns), first_line_number)

\* An insertion that puts x before the elements of equal key, as an
\* unstable sort may.
RECURSIVE insert_before_equal_keys(_, _)
insert_before_equal_keys(sorted, x) ==
    IF sorted = <<>> THEN <<x>>
    ELSE IF Head(sorted).col_number < x.col_number
         THEN <<Head(sorted)>> \o insert_before_equal_keys(Tail(sorted), x)
         ELSE <<x>> \o sorted

\* One insertion of the stable sort: x goes after every element whose key
\* is not greater than its own.
RECURSIVE insert_by_key(_, _)
insert_by_key(sorted, x) ==
    IF sorted = <<>> THEN <<x>>
    ELSE IF Head(sorted).col_number <= x.col_number
         THEN <<Head(sorted)>> \o insert_by_key(Tail(sorted), x)
         ELSE <<x>> \o sorted

\* slice::sort_by_key(|a| a.col_number): a stable sort.
RECURSIVE sort_by_key(_)
sort_by_key(anns) ==
    IF anns = <<>> THEN <<>>
    ELSE insert_by_key(sort_by_key(SubSeq(anns, 1, Len(anns) - 1)),
                       anns[Len(anns)])

\* AnnotatedError::error_matrix.
error_matrix(debug, self) ==
    LET b == bounds(debug, self)
        first_line_number == b.min.line
        last_line_number == b.max.line
        total_line_number == last_line_number - first_line_number + 1
        filled == fill_matrix([i \in 1..total_line_number |-> <<>>],
                              self.annotations, first_line_number)
    IN  IF b.panicked \/ last_line_number < first_line_number
        THEN [panicked |-> TRUE, matrix |-> <<>>,
              why |-> "attempt to subtract with overflow"]
        ELSE [panicked |-> filled.panicked,
              matrix |-> [i \in 1..Len(filled.matrix) |->
                              sort_by_key(filled.matrix[i])],
              why |-> filled.why]

\* --------------------------------------------------------- ErrorReporter

\* The byte index of the first '\n' of s, or len(s).
find_newline(s) ==
    LET ci == char_indices(s)
        found == {k \in 1..Len(ci) : ci[k][2] = LF}
    IN  IF found = {} THEN len(s)
        ELSE ci[CHOOSE k \in found : \A j \in found : k <= j][1]

\* line_start without the .last(): the byte index of the last character of
\* s when it is no '\n'.
line_start_without_last(s) ==
    LET ci == char_indices(s)
    IN  IF s = <<>> \/ s[Len(s)] = LF THEN len(s) ELSE ci[Len(s)][1]

\* char_indices().rev().take_while(c != '\n').last(): the byte index of the
\* first character of the run without '\n' that ends s, or len(s) when that
\* run is empty.
line_start(s) ==
    LET ci == char_indices(s)
        run == {k \in 1..Len(ci) : \A j \in k..Len(ci) : ci[j][2] # LF}
    IN  IF run = {} THEN len(s)
        ELSE ci[CHOOSE k \in run : \A j \in run : k <= j][1]

\* ErrorReporter::code_snippet_for. Every str::split_at panics on an index
\* that is no char boundary of the string it splits.
code_snippet_for(content, start_pos, end_pos) ==
    LET start_offset == start_pos.offset
        end_offset == end_pos.offset
    IN  IF ~is_char_boundary(content, start_offset)
           \/ ~is_char_boundary(content, end_offset)
        THEN [panicked |-> TRUE, text |-> <<>>]
        ELSE
    LET before_start == str_split_at(content, start_offset)[1]
        after_end == str_split_at(content, end_offset)[2]
        end_idx == end_offset + find_newline(after_end)
        start_idx == line_start(before_start)
    IN  IF ~is_char_boundary(content, end_idx) THEN [panicked |-> TRUE, text |-> <<>>]
        ELSE
    LET head == str_split_at(content, end_idx)[1]
    IN  IF ~is_char_boundary(head, start_idx) THEN [panicked |-> TRUE, text |-> <<>>]
        ELSE [panicked |-> FALSE, text |-> str_split_at(head, start_idx)[2]]

\* str::lines: the lines of s without their '\n'; a final empty line is not
\* produced, so the empty string has no line.
RECURSIVE lines(_)
lines(s) ==
    IF s = <<>> THEN <<>>
    ELSE LET n == find_newline(s)
             parts == str_split_at(s, n)
         IN  IF parts[2] = <<>> THEN <<parts[1]>>
             ELSE <<parts[1]>> \o lines(Tail(parts[2]))

\* A FormattedError whose position is the start of the bounds.
FormattedError_pos_of_bounds(e, stream_name, start_pos, snippet, errors) ==
    [pos |-> start_pos,
     first_line_number |-> start_pos.line,
     general_msg |-> e.msg,
     stream_name |-> stream_name,
     text |-> snippet,
     errors |-> errors]

\* The FormattedError that format_error builds from the error, the path of
\* the reporter, the bounds, the snippet and the matrix.
FormattedError(e, stream_name, start_pos, snippet, errors) ==
    [pos |-> e.span.start,
     first_line_number |-> start_pos.line,
     general_msg |-> e.msg,
     stream_name |-> stream_name,
     text |-> snippet,
     errors |-> errors]

\* ------------------------------------------- Display for FormattedError

\* What fmt writes is kept as the sequence of its lines, each one ended by a
\* writeln!; a line is a sequence of characters. The literal "Error: " is
\* kept as one symbol (the letter "E" of the alphabet is the two-byte one).

Digits == <<"0", "1", "2", "3", "4", "5", "6", "7", "8", "9">>

\* `{}` of an unsigned number: its decimal digits.
RECURSIVE decimal(_)
decimal(n) ==
    IF n < 10 THEN <<Digits[n + 1]>>
    ELSE decimal(n \div 10) \o <<Digits[(n % 10) + 1]>>

\* str::repeat of a one-character string.
repeat(chr, n) == [i \in 1..n |-> chr]

\* `{:>3}`: right-aligned in a field of three columns; a longer value is
\* written whole.
pad_left_3(s) == (IF Len(s) < 3 THEN repeat(" ", 3 - Len(s)) ELSE <<>>) \o s

\* The text "     |" that starts the lines without a line number.
Gutter == <<" ", " ", " ", " ", " ", "|">>

write_general_message(self) == <<"Error: ">> \o self.general_msg

write_position(self) ==
    LET line == self.pos.line + 1
        col == self.pos.col + 1
    IN  IF self.stream_name # <<>>
        THEN <<" ", "-", "-", ">", " ">> \o self.stream_name[1] \o <<":">>
                \o decimal(line) \o <<":">> \o decimal(col)
        ELSE <<" ", "-", "-", ">", " ">> \o decimal(line) \o <<":">> \o decimal(col)

\* The two lines of the header.
write_header(self) == <<write_general_message(self), write_position(self)>>

\* The greatest byte length of a message of the matrix, or 0.
spacing(self) ==
    LET lens == UNION {{len(self.errors[r][i].text) : i \in 1..Len(self.errors[r])} :
                          r \in 1..Len(self.errors)}
    IN  IF lens = {} THEN 0 ELSE CHOOSE m \in lens : \A x \in lens : x <= m

write_line(content, spc, number) ==
    <<" ">> \o pad_left_3(decimal(number)) \o <<" ", "|", " ">>
        \o repeat(" ", spc) \o <<" ">> \o content

\* The loop of write_underlines with a caret for every marker.
RECURSIVE underlines_caret_only(_, _)
underlines_caret_only(errs, current_col_number) ==
    IF errs = <<>> THEN [panicked |-> FALSE, out |-> <<>>]
    ELSE LET annotation == Head(errs)
             delta == annotation.col_number - current_col_number
             length == IF annotation.length < 1 THEN 1 ELSE annotation.length
             rest == underlines_caret_only(Tail(errs),
                                           current_col_number + delta + length)
         IN  IF delta < 0 \/ rest.panicked
             THEN [panicked |-> TRUE, out |-> <<>>]
             ELSE [panicked |-> FALSE,
                   out |-> repeat(" ", delta) \o repeat("^", length) \o rest.out]

\* The loop of write_underlines over the annotations of a row, from the
\* column current_col_number: the blanks up to the annotation, then its
\* marker. The usize subtraction fails when the annotation starts before
\* that column: an overflow panic, or (wrapping) a str::repeat of more
\* than isize::MAX bytes, which panics too.
RECURSIVE underlines(_, _)
underlines(errs, current_col_number) ==
    IF errs = <<>> THEN [panicked |-> FALSE, out |-> <<>>]
    ELSE LET annotation == Head(errs)
             delta == annotation.col_number - current_col_number
             length == IF annotation.length < 1 THEN 1 ELSE annotation.length
             chr == IF length = 1 THEN "|" ELSE "^"
             rest == underlines(Tail(errs), current_col_number + delta + length)
         IN  IF delta < 0 \/ rest.panicked
             THEN [panicked |-> TRUE, out |-> <<>>]
             ELSE [panicked |-> FALSE,
                   out |-> repeat(" ", delta) \o repeat(chr, length) \o rest.out]

write_underlines(errs, spc) ==
    LET marks == underlines(errs, 0)
    IN  [panicked |-> marks.panicked,
         out |-> Gutter \o <<" ">> \o repeat(" ", spc) \o <<" ">> \o marks.out]

\* The loop of write_error_line over the annotations to the right: the
\* blanks up to each of them, then a bar.
RECURSIVE other_bars(_, _)
other_bars(other_annotations, current_col_number) ==
    IF other_annotations = <<>> THEN [panicked |-> FALSE, out |-> <<>>]
    ELSE LET annotation == Head(other_annotations)
             delta == annotation.col_number - current_col_number - 1
             rest == other_bars(Tail(other_annotations), annotation.col_number)
         IN  IF delta < 0 \/ rest.panicked
             THEN [panicked |-> TRUE, out |-> <<>>]
             ELSE [panicked |-> FALSE,
                   out |-> repeat(" ", delta) \o <<"|">> \o rest.out]

\* write_error_line with dashes up to the source text only (no column).
write_error_line_no_col(annotation, spc, other_annotations) ==
    LET pipe_len == spc - len(annotation.text) + 1
        bars == other_bars(other_annotations, annotation.col_number)
    IN  IF spc < len(annotation.text) \/ bars.panicked
        THEN [panicked |-> TRUE, out |-> <<>>]
        ELSE [panicked |-> FALSE,
              out |-> Gutter \o <<" ">> \o annotation.text
                        \o repeat("-", pipe_len) \o <<"'">> \o bars.out]

write_error_line(annotation, spc, other_annotations) ==
    LET pipe_len == spc - len(annotation.text) + annotation.col_number + 1
        bars == other_bars(other_annotations, annotation.col_number)
    IN  IF spc < len(annotation.text) \/ bars.panicked
        THEN [panicked |-> TRUE, out |-> <<>>]
        ELSE [panicked |-> FALSE,
              out |-> Gutter \o <<" ">> \o annotation.text
                        \o repeat("-", pipe_len) \o <<"'">> \o bars.out]

\* The underline row of a row of the matrix, then the line of each of its
\* annotations, in the order of the row.
write_errors(annotations, spc) ==
    LET under == write_underlines(annotations, spc)
        line(idx) == write_error_line(annotations[idx], spc,
                                      SubSeq(annotations, idx + 1, Len(annotations)))
    IN  IF under.panicked \/ \E idx \in 1..Len(annotations) : line(idx).panicked
        THEN [panicked |-> TRUE, out |-> <<>>]
        ELSE [panicked |-> FALSE,
              out |-> <<under.out>> \o [idx \in 1..Len(annotations) |-> line(idx).out]]

\* The loop of fmt where the row of the matrix does not advance with the
\* line.
RECURSIVE blocks_same_row(_, _, _, _, _)
blocks_same_row(text_lines, errors, idx, spc, first_line_number) ==
    IF text_lines = <<>> \/ errors = <<>> THEN [panicked |-> FALSE, out |-> <<>>]
    ELSE LET errs == write_errors(Head(errors), spc)
             rest == blocks_same_row(Tail(text_lines), errors, idx + 1, spc,
                                     first_line_number)
         IN  IF errs.panicked \/ rest.panicked
             THEN [panicked |-> TRUE, out |-> <<>>]
             ELSE [panicked |-> FALSE,
                   out |-> <<write_line(Head(text_lines), spc,
                                        idx + first_line_number + 1)>>
                            \o errs.out \o <<Gutter>> \o rest.out]

\* The loop of fmt over text.lines().zip(errors.iter()).enumerate(), from
\* the index idx: the source line, its annotations, a gutter line. The zip
\* ends with the shorter of the two.
RECURSIVE blocks(_, _, _, _, _)
blocks(text_lines, errors, idx, spc, first_line_number) ==
    IF text_lines = <<>> \/ errors = <<>> THEN [panicked |-> FALSE, out |-> <<>>]
    ELSE LET errs == write_errors(Head(errors), spc)
             rest == blocks(Tail(text_lines), Tail(errors), idx + 1, spc,
                            first_line_number)
         IN  IF errs.panicked \/ rest.panicked
             THEN [panicked |-> TRUE, out |-> <<>>]
             ELSE [panicked |-> FALSE,
                   out |-> <<write_line(Head(text_lines), spc,
                                        idx + first_line_number + 1)>>
                            \o errs.out \o <<Gutter>> \o rest.out]

\* Display::fmt of a FormattedError, and so its to_string().
fmt(self) ==
    LET spc == spacing(self)
        body == blocks(lines(self.text), self.errors, 0, spc, self.first_line_number)
    IN  [panicked |-> body.panicked,
         out |-> IF body.panicked THEN <<>>
                 ELSE write_header(self) \o <<Gutter>> \o body.out]

\* ----------------------------------------------------------------- lexer

\* The characters of the inputs that are lexed: a one-byte and a two-byte
\* letter.
LexChars == {"a", "E"}

\* What a Terminal::lex does on an input, decided on its first character c
\* as by the terminals of the tests (Dash, Dot), with
\* (matched, tail) = i.split_at(c.len_utf8()):
\*   "none"      None
\*   "ok"        Some(Ok((term, matched.span(), tail)))
\*   "ok_empty"  Some(Ok((term, i.split_at(0).0.span(), i))): an empty match
\*   "err_tail"  Some(Err((vec![report], Some(tail))))
\*   "err_two"   Some(Err((vec![report, second], Some(tail))))
\*   "err_stay"  Some(Err((vec![report], Some(i)))): resumes where it was
\*   "fatal"     Some(Err((vec![report], None)))
Outcomes == {"none", "ok", "ok_empty", "err_tail", "err_two", "err_stay", "fatal"}

\* A terminal is the outcome of its lex for every first character.
Terminals == [LexChars -> Outcomes]

\* The reports of a terminal on the span it matched.
report(sp) == new(sp, <<"Expected">>)
second(sp) == new(sp, <<"Second">>)

\* Terminal::lex of the terminal term on the input i: None, Some(Ok(..)) or
\* Some(Err(..)). An Option is a sequence of at most one value.
lex(term, i) ==
    IF i.content = <<>> \/ term[Head(i.content)] = "none" THEN [some |-> FALSE]
    ELSE LET parts == split_at_ok(i, len_utf8(Head(i.content)))
             matched == parts[1]
             tail == parts[2]
             outcome == term[Head(i.content)]
         IN  CASE outcome = "ok" ->
                    [some |-> TRUE, ok |-> TRUE, span |-> matched.span, tail |-> tail]
               [] outcome = "ok_empty" ->
                    [some |-> TRUE, ok |-> TRUE,
                     span |-> split_at_ok(i, 0)[1].span, tail |-> i]
               [] outcome = "err_tail" ->
                    [some |-> TRUE, ok |-> FALSE,
                     errors |-> <<report(matched.span)>>, tail |-> <<tail>>]
               [] outcome = "err_two" ->
                    [some |-> TRUE, ok |-> FALSE,
                     errors |-> <<report(matched.span), second(matched.span)>>,
                     tail |-> <<tail>>]
               [] outcome = "err_stay" ->
                    [some |-> TRUE, ok |-> FALSE,
                     errors |-> <<report(matched.span)>>, tail |-> <<i>>]
               [] outcome = "fatal" ->
                    [some |-> TRUE, ok |-> FALSE,
                     errors |-> <<report(matched.span)>>, tail |-> <<>>]

\* input.take_while(|_| if first { first = false; true } else { false }):
\* the closure accepts the first character only, so the split is at the
\* byte index of the second character, or at the length.
take_while_first(self) ==
    LET ci == char_indices(self.content)
        idx == IF Len(ci) >= 2 THEN ci[2][1] ELSE len(self.content)
    IN  split_at(self, idx)

\* The backquote of the message of from_str.
BQ == "BQ"

\* The end of the generated from_str, when no terminal matched.
unknown_start(i) ==
    LET chr == take_while_first(i).ret[1]
        rep == with_annotation(
                   new(chr.span, <<"Unknown start of token: ", BQ>> \o chr.content \o <<BQ>>),
                   chr.span, <<"Unknown start of token">>)
    IN  [ok |-> FALSE, errors |-> <<rep>>, tail |-> <<>>]

\* from_str trying the terminals from the last declared to the first.
RECURSIVE from_str_last_first(_, _, _)
from_str_last_first(terms, k, i) ==
    IF k > Len(terms) THEN unknown_start(i) @@ [lexed |-> Len(terms)]
    ELSE LET rslt == lex(terms[Len(terms) + 1 - k], i)
         IN  IF rslt.some
             THEN IF rslt.ok
                  THEN [ok |-> TRUE,
                        tok |-> [kind |-> Len(terms) + 1 - k, span |-> rslt.span],
                        tail |-> rslt.tail, lexed |-> k]
                  ELSE [ok |-> FALSE, errors |-> rslt.errors, tail |-> rslt.tail,
                        lexed |-> k]
             ELSE from_str_last_first(terms, k + 1, i)

\* The Token::from_str that token! generates for the terminals terms, from
\* the k-th on: the result of the first lex that is not None (rslt? returns
\* its Err as it is), else the failure on the first character. The field
\* lexed counts the lex calls made.
RECURSIVE from_str(_, _, _)
from_str(terms, k, i) ==
    IF k > Len(terms) THEN unknown_start(i) @@ [lexed |-> Len(terms)]
    ELSE LET rslt == lex(terms[k], i)
         IN  IF rslt.some
             THEN IF rslt.ok
                  THEN [ok |-> TRUE, tok |-> [kind |-> k, span |-> rslt.span],
                        tail |-> rslt.tail, lexed |-> k]
                  ELSE [ok |-> FALSE, errors |-> rslt.errors, tail |-> rslt.tail,
                        lexed |-> k]
             ELSE from_str(terms, k + 1, i)

\* ----------------------------------------------------------------- state

VARIABLES
    cfg_debug,  \* whether the crate is compiled with --cfg debug
    pos,        \* a Position the program holds (SpecPos)
    text,       \* the content of the input unit (SpecSlice, SpecError)
    cur,        \* a SpannedStr the program holds (SpecSlice)
    spans,      \* the spans the program got by slicing the input (SpecError)
    err,        \* the AnnotatedError being built (SpecError, SpecReport)
    call,       \* the last operation: its receiver, arguments and result
    path,       \* ErrorReporter.path: <<>> is None, <<p>> is Some(p)
    terminals,  \* the terminals of the token! invocation, in its order
    input,      \* from_spanned_str: the local `input`
    toks,       \* from_spanned_str: the local `toks`
    errs,       \* from_spanned_str: the local `errs`
    pc          \* from_spanned_str: "loop", or "returned" after a return

lexer_vars == <<terminals, input, toks, errs, pc>>

vars == <<cfg_debug, pos, text, cur, spans, err, call, path, lexer_vars>>

NoCall == [op |-> "none"]
NoSlice == input_file(<<>>)
NoError == new(of_file(<<>>), <<>>)

\* The lexer is not running.
NoLexer ==
    /\ terminals = <<>>
    /\ input = NoSlice
    /\ toks = <<>>
    /\ errs = <<>>
    /\ pc = "none"

\* ----------------------------------------------- SpecPos: Position, Span

Coords == 0..MaxCoord
Positions == {Position(l, c, o) : l \in Coords, c \in Coords, o \in Coords}

\* The build and the receiver are fixed; line, col and offset are any three
\* numbers, as in the hand-built positions of the crate's tests.
InitPos ==
    /\ path = <<>>
    /\ NoLexer
    /\ cfg_debug \in BOOLEAN
    /\ pos \in Positions
    /\ text = <<>>
    /\ cur = NoSlice
    /\ spans = {}
    /\ err = NoError
    /\ call = NoCall

\* pos.advance_with(s)
AdvanceWith ==
    \E s \in Strs(MaxLen) :
        /\ call' = [op |-> "advance_with", self |-> pos, s |-> s,
                    ret |-> advance_with(pos, s)]
        /\ UNCHANGED <<cfg_debug, pos, text, cur, spans, err, path, lexer_vars>>

\* pos.cmp(&other)
Cmp ==
    \E other \in Positions :
        LET r == position_cmp(cfg_debug, pos, other)
        IN  /\ call' = [op |-> "cmp", self |-> pos, other |-> other,
                        panicked |-> r.panicked, ret |-> r.ord]
            /\ UNCHANGED <<cfg_debug, pos, text, cur, spans, err, path, lexer_vars>>

\* Span { start, end: pos }.next_char(), for any start.
NextChar ==
    \E start \in Positions :
        /\ call' = [op |-> "next_char", self |-> Span(start, pos),
                    ret |-> next_char(Span(start, pos))]
        /\ UNCHANGED <<cfg_debug, pos, text, cur, spans, err, path, lexer_vars>>

NextPos == AdvanceWith \/ Cmp \/ NextChar

SpecPos == InitPos /\ [][NextPos]_vars

\* ------------------------------- SpecOrder: positions of one input unit

\* The build is fixed; the program is at the beginning of the input unit.
InitOrder ==
    /\ path = <<>>
    /\ NoLexer
    /\ cfg_debug \in BOOLEAN
    /\ pos = BEGINNING
    /\ text \in Strs(MaxLen)
    /\ cur = NoSlice
    /\ spans = {}
    /\ err = NoError
    /\ call = NoCall

\* A panic ends the program.
OrderRunning == ~(call.op = "cmp" /\ call.panicked)

\* pos = pos.advance_with(s), s the next characters of the input unit: pos
\* is k characters into the text and moves on to j.
AdvanceOn ==
    \E k \in 0..Len(text), j \in 0..Len(text) :
        /\ OrderRunning
        /\ k < j
        /\ pos.offset = len(SubSeq(text, 1, k))
        /\ pos' = advance_with(pos, SubSeq(text, k + 1, j))
        /\ call' = [op |-> "advance_with", self |-> pos, s |-> SubSeq(text, k + 1, j),
                    ret |-> pos']
        /\ UNCHANGED <<cfg_debug, text, cur, spans, err, path, lexer_vars>>

\* pos.cmp(&other), other being BEGINNING advanced over a prefix of the
\* same input unit.
CmpSameUnit ==
    \E k \in 0..Len(text) :
    \E other \in {advance_with(BEGINNING, SubSeq(text, 1, k))} :
    \E r \in {position_cmp(cfg_debug, pos, other)} :
        /\ OrderRunning
        /\ call' = [op |-> "cmp", self |-> pos, other |-> other,
                    panicked |-> r.panicked, ret |-> r.ord]
        /\ UNCHANGED <<cfg_debug, pos, text, cur, spans, err, path, lexer_vars>>

NextOrder == AdvanceOn \/ CmpSameUnit

SpecOrder == InitOrder /\ [][NextOrder]_vars

\* ---------------------------------------------------- SpecSlice: slices

\* The whole input, from SpannedStr::input_file(text) or from
\* ErrorReporter::spanned_str().
InitSlice ==
    /\ path = <<>>
    /\ NoLexer
    /\ cfg_debug = FALSE
    /\ pos = BEGINNING
    /\ spans = {}
    /\ err = NoError
    /\ text \in Strs(MaxLen)
    /\ \/ /\ cur = input_file(text)
          /\ call = [op |-> "input_file", content |-> text, ret |-> cur]
       \/ /\ ~spanned_str(text).panicked
          /\ cur = spanned_str(text).ret
          /\ call = [op |-> "spanned_str", content |-> text, ret |-> cur]

\* A panic ends the program: no operation follows it.
Running == ~(call.op \in {"split_at", "take_while"} /\ call.panicked)

\* cur.split_at(idx), for any index; the program keeps one of the two halves.
SplitAt ==
    \E idx \in 0..(len(cur.content) + 1), keep \in 1..2 :
        LET r == split_at(cur, idx)
        IN  /\ Running
            /\ call' = [op |-> "split_at", self |-> cur, idx |-> idx,
                        panicked |-> r.panicked, ret |-> r.ret]
            /\ cur' = IF r.panicked THEN cur ELSE r.ret[keep]
            /\ UNCHANGED <<cfg_debug, pos, text, spans, err, path, lexer_vars>>

\* cur.take_while(f); the program keeps one of the two halves.
TakeWhile ==
    \E f \in SUBSET Chars, keep \in 1..2 :
        LET r == take_while(cur, f)
        IN  /\ Running
            /\ call' = [op |-> "take_while", self |-> cur, f |-> f,
                        panicked |-> r.panicked, ret |-> r.ret]
            /\ cur' = IF r.panicked THEN cur ELSE r.ret[keep]
            /\ UNCHANGED <<cfg_debug, pos, text, spans, err, path, lexer_vars>>

NextSlice == SplitAt \/ TakeWhile

SpecSlice == InitSlice /\ [][NextSlice]_vars

\* ------------------------------ SpecError: AnnotatedError, ErrorReporter

\* The spans a program can get from the input unit t: those of the slices
\* input_file(t).split_at(j).0.split_at(i).1, for all char boundaries i <= j.
SubSpans(t) ==
    LET file == input_file(t)
        cuts == {idx \in 0..len(t) : is_char_boundary(t, idx)}
    IN  {split_at_ok(split_at_ok(file, j)[1], i)[2].span :
            <<i, j>> \in {c \in cuts \X cuts : c[1] <= c[2]}}

\* The message of the k-th annotation of an error: k letters, so that the
\* messages of one error all differ in length.
Msg(k) == [i \in 1..k |-> "m"]

\* The message of the error itself.
GeneralMsg == <<"m", "s", "g">>

\* ErrorReporter::non_file_input(text), then AnnotatedError::new on a span
\* of that input.
InitError ==
    /\ path = <<>>
    /\ NoLexer
    /\ cfg_debug = FALSE
    /\ pos = BEGINNING
    /\ cur = NoSlice
    /\ text \in Strs(MaxSrc)
    /\ spans = SubSpans(text)
    /\ \E sp \in spans : err = new(sp, GeneralMsg)
    /\ call = [op |-> "new"]

\* err = err.with_annotation(sp, msg)
WithAnnotation ==
    \E sp \in spans :
        /\ Len(err.annotations) < MaxAnn
        /\ err' = with_annotation(err, sp, Msg(Len(err.annotations) + 1))
        /\ call' = [op |-> "with_annotation"]
        /\ UNCHANGED <<cfg_debug, pos, text, cur, spans, path, lexer_vars>>

\* reporter.format_error(&err): err.bounds(), then code_snippet_for on these
\* bounds, then err.error_matrix(), then the FormattedError. A panic of one
\* call ends format_error: the later calls are not made. The record keeps
\* what each call returned. format_error only borrows the reporter and the
\* error, so calling it again in the same state returns the same value:
\* the step is taken once per error built.
FormatError ==
    \E b \in {bounds(cfg_debug, err)} :
    \E snippet \in {IF b.panicked THEN [panicked |-> TRUE, text |-> <<>>]
                    ELSE code_snippet_for(text, b.min, b.max)} :
    \E errors \in {IF snippet.panicked
                   THEN [panicked |-> TRUE, matrix |-> <<>>, why |-> "split_at"]
                   ELSE error_matrix(cfg_debug, err)} :
        /\ call.op # "format_error"
        /\ call' = [op |-> "format_error",
                    bounds |-> b,
                    snippet |-> snippet,
                    matrix |-> errors,
                    panicked |-> errors.panicked,
                    ret |-> FormattedError(err, path, b.min, snippet.text, errors.matrix)]
        /\ UNCHANGED <<cfg_debug, pos, text, cur, spans, err, path, lexer_vars>>

NextError == WithAnnotation \/ FormatError

SpecError == InitError /\ [][NextError]_vars

\* ------------------------- SpecEof: errors at the end of the input unit

\* As InitError, the program holding one more span: that of the character
\* after the whole input, reporter.spanned_str().span().next_char().
InitEof ==
    /\ path = <<>>
    /\ NoLexer
    /\ cfg_debug = FALSE
    /\ pos = BEGINNING
    /\ cur = NoSlice
    /\ text \in Strs(MaxSrc)
    /\ spans = SubSpans(text) \cup {next_char(spanned_str(text).ret.span)}
    /\ \E sp \in spans : err = new(sp, GeneralMsg)
    /\ call = [op |-> "new"]

SpecEof == InitEof /\ [][NextError]_vars

\* --------------------------------------- SpecReport: the rendered report

\* The characters of the inputs that are reported on: a letter and the line
\* feed (rendering counts columns, never bytes of the source).
ReportChars == {"a", LF}

\* The path of the reporter: none (non_file_input) or a name (input_file).
Paths == {<<>>, <<(<<"f">>)>>}

\* ErrorReporter::input_file(path, text) or non_file_input(text), then
\* AnnotatedError::new on a span of that input. The spans kept for the
\* annotations are those on one line: format_error panics on an error with
\* another annotation (the assertion of error_matrix) and nothing is
\* rendered.
InitReport ==
    /\ NoLexer
    /\ cfg_debug = FALSE
    /\ pos = BEGINNING
    /\ cur = NoSlice
    /\ path \in Paths
    /\ text \in UNION {[1..k -> ReportChars] : k \in 0..MaxSrc}
    /\ spans = {sp \in SubSpans(text) : sp.start.line = sp.end.line}
    /\ \E sp \in SubSpans(text) : err = new(sp, GeneralMsg)
    /\ call = [op |-> "new"]

\* Display with a format_error that takes the annotations out of the error.
Display_takes_annotations ==
    \E b \in {bounds(cfg_debug, err)} :
    \E snippet \in {IF b.panicked THEN [panicked |-> TRUE, text |-> <<>>]
                    ELSE code_snippet_for(text, b.min, b.max)} :
    \E errors \in {IF snippet.panicked
                   THEN [panicked |-> TRUE, matrix |-> <<>>, why |-> "split_at"]
                   ELSE error_matrix(cfg_debug, err)} :
    \E self \in {FormattedError(err, path, b.min, snippet.text, errors.matrix)} :
    \E written \in {IF errors.panicked THEN [panicked |-> TRUE, out |-> <<>>]
                    ELSE fmt(self)} :
        /\ call.op # "to_string"
        /\ call' = [op |-> "to_string",
                    bounds |-> b,
                    self |-> self,
                    format_error_panicked |-> errors.panicked,
                    panicked |-> written.panicked,
                    ret |-> written.out]
        /\ err' = [err EXCEPT !.annotations = <<>>]
        /\ UNCHANGED <<cfg_debug, pos, text, cur, spans, path, lexer_vars>>

\* reporter.format_error(&err).to_string(): format_error as in FormatError,
\* then Display::fmt on the FormattedError. A panic of format_error or of
\* fmt leaves no text.
Display ==
    \E b \in {bounds(cfg_debug, err)} :
    \E snippet \in {IF b.panicked THEN [panicked |-> TRUE, text |-> <<>>]
                    ELSE code_snippet_for(text, b.min, b.max)} :
    \E errors \in {IF snippet.panicked
                   THEN [panicked |-> TRUE, matrix |-> <<>>, why |-> "split_at"]
                   ELSE error_matrix(cfg_debug, err)} :
    \E self \in {FormattedError(err, path, b.min, snippet.text, errors.matrix)} :
    \E written \in {IF errors.panicked THEN [panicked |-> TRUE, out |-> <<>>]
                    ELSE fmt(self)} :
        /\ call.op # "to_string"
        /\ call' = [op |-> "to_string",
                    bounds |-> b,
                    self |-> self,
                    format_error_panicked |-> errors.panicked,
                    panicked |-> written.panicked,
                    ret |-> written.out]
        /\ UNCHANGED <<cfg_debug, pos, text, cur, spans, err, path, lexer_vars>>

\* The same calls made a second time on the same reporter and the same
\* error: reporter.format_error(&err).to_string() again, and to_string()
\* again on the FormattedError of the first call (format_error and fmt
\* borrow their arguments: &self, &AnnotatedError, &FormattedError).
DisplayAgain ==
    \E b \in {bounds(cfg_debug, err)} :
    \E snippet \in {IF b.panicked THEN [panicked |-> TRUE, text |-> <<>>]
                    ELSE code_snippet_for(text, b.min, b.max)} :
    \E errors \in {IF snippet.panicked
                   THEN [panicked |-> TRUE, matrix |-> <<>>, why |-> "split_at"]
                   ELSE error_matrix(cfg_debug, err)} :
    \E self \in {FormattedError(err, path, b.min, snippet.text, errors.matrix)} :
    \E written \in {IF errors.panicked THEN [panicked |-> TRUE, out |-> <<>>]
                    ELSE fmt(self)} :
        /\ call.op = "to_string"
        /\ call' = [op |-> "to_string_again",
                    first |-> [format_error_panicked |-> call.format_error_panicked,
                               self |-> call.self,
                               panicked |-> call.panicked,
                               ret |-> call.ret],
                    again |-> [format_error_panicked |-> errors.panicked,
                               self |-> self,
                               panicked |-> written.panicked,
                               ret |-> written.out],
                    same |-> IF call.format_error_panicked
                             THEN [panicked |-> TRUE, out |-> <<>>]
                             ELSE fmt(call.self)]
        /\ UNCHANGED <<cfg_debug, pos, text, cur, spans, err, path, lexer_vars>>

NextReport == WithAnnotation \/ Display \/ DisplayAgain

SpecReport == InitReport /\ [][NextReport]_vars

\* ------------------------- SpecAlign: reports with messages of any letters

\* The message of the k-th annotation of an error, written with letters of
\* two bytes.
WideMsg(k) == [i \in 1..k |-> "E"]

\* err = err.with_annotation(sp, msg), the message being of one-byte or of
\* two-byte letters.
WithAnnotationAnyMsg ==
    \E sp \in spans :
    \E msg \in {Msg(Len(err.annotations) + 1), WideMsg(Len(err.annotations) + 1)} :
        /\ Len(err.annotations) < MaxAnn
        /\ err' = with_annotation(err, sp, msg)
        /\ call' = [op |-> "with_annotation"]
        /\ UNCHANGED <<cfg_debug, pos, text, cur, spans, path, lexer_vars>>

NextAlign == WithAnnotationAnyMsg \/ Display

SpecAlign == InitReport /\ [][NextAlign]_vars

\* ------------------------------------- SpecLexer: Lexer::from_spanned_str

\* Lexer::<Tok>::from_spanned_str(SpannedStr::input_file(text)): the locals
\* at the loop.
EnterLexer ==
    /\ cfg_debug = FALSE
    /\ pos = BEGINNING
    /\ cur = NoSlice
    /\ spans = {}
    /\ err = NoError
    /\ path = <<>>
    /\ text \in UNION {[1..k -> LexChars] : k \in 0..MaxSrc}
    /\ input = input_file(text)
    /\ toks = <<>>
    /\ errs = <<>>
    /\ pc = "loop"
    /\ call = [op |-> "from_spanned_str", n |-> 0]

\* A token of two terminals (as MorseToken = Dash | Dot).
InitLexer == terminals \in [1..2 -> Terminals] /\ EnterLexer

\* A token of one terminal.
InitLexerOne == terminals \in [1..1 -> Terminals] /\ EnterLexer

\* The loop is at its condition and the condition holds. A loop that has
\* collected more tokens and errors than an input of MaxSrc characters can
\* give when every step consumes is followed no further: from_str depends on
\* its input alone, so a step that gave back its input is repeated by the
\* code for ever, with vectors that grow at each turn.
AtLoop ==
    /\ pc = "loop"
    /\ input.content # <<>>
    /\ Len(toks) + Len(errs) <= 2 * MaxSrc

\* The arm Ok((tok, tail)) with the token put in front of toks.
TokOk_pushed_front ==
    \E r \in {from_str(terminals, 1, input)} :
        /\ AtLoop
        /\ r.ok
        /\ toks' = <<r.tok>> \o toks
        /\ input' = r.tail
        /\ call' = [op |-> "from_str", n |-> call.n + 1, input |-> input, ret |-> r]
        /\ UNCHANGED <<cfg_debug, pos, text, cur, spans, err, path, terminals, errs, pc>>

\* The arm Ok((tok, tail)) without `input = tail`.
TokOk_input_kept ==
    \E r \in {from_str(terminals, 1, input)} :
        /\ AtLoop
        /\ r.ok
        /\ toks' = Append(toks, r.tok)
        /\ call' = [op |-> "from_str", n |-> call.n + 1, input |-> input, ret |-> r]
        /\ UNCHANGED <<cfg_debug, pos, text, cur, spans, err, path, terminals, input,
                       errs, pc>>

\* One iteration, arm Ok((tok, tail)).
TokOk ==
    \E r \in {from_str(terminals, 1, input)} :
        /\ AtLoop
        /\ r.ok
        /\ toks' = Append(toks, r.tok)
        /\ input' = r.tail
        /\ call' = [op |-> "from_str", n |-> call.n + 1, input |-> input, ret |-> r]
        /\ UNCHANGED <<cfg_debug, pos, text, cur, spans, err, path, terminals, errs, pc>>

\* The arm Err((es, Some(tail))) with `errs = es` for `errs.extend(es)`.
ErrSomeTail_errs_replaced ==
    \E r \in {from_str(terminals, 1, input)} :
        /\ AtLoop
        /\ ~r.ok /\ r.tail # <<>>
        /\ errs' = r.errors
        /\ input' = r.tail[1]
        /\ call' = [op |-> "from_str", n |-> call.n + 1, input |-> input, ret |-> r]
        /\ UNCHANGED <<cfg_debug, pos, text, cur, spans, err, path, terminals, toks, pc>>

\* One iteration, arm Err((es, Some(tail))).
ErrSomeTail ==
    \E r \in {from_str(terminals, 1, input)} :
        /\ AtLoop
        /\ ~r.ok /\ r.tail # <<>>
        /\ errs' = errs \o r.errors
        /\ input' = r.tail[1]
        /\ call' = [op |-> "from_str", n |-> call.n + 1, input |-> input, ret |-> r]
        /\ UNCHANGED <<cfg_debug, pos, text, cur, spans, err, path, terminals, toks, pc>>

\* The arm Err((es, None)) without its return: the loop goes on after the
\* first character.
ErrNone_goes_on ==
    \E r \in {from_str(terminals, 1, input)} :
        /\ AtLoop
        /\ ~r.ok /\ r.tail = <<>>
        /\ errs' = errs \o r.errors
        /\ input' = take_while_first(input).ret[2]
        /\ call' = [op |-> "from_str", n |-> call.n + 1, input |-> input, ret |-> r]
        /\ UNCHANGED <<cfg_debug, pos, text, cur, spans, err, path, terminals, toks, pc>>

\* One iteration, arm Err((es, None)): return Err(errs).
ErrNone ==
    \E r \in {from_str(terminals, 1, input)} :
        /\ AtLoop
        /\ ~r.ok /\ r.tail = <<>>
        /\ errs' = errs \o r.errors
        /\ pc' = "returned"
        /\ call' = [op |-> "from_str", n |-> call.n + 1, input |-> input, ret |-> r,
                    returned |-> [ok |-> FALSE, errs |-> errs']]
        /\ UNCHANGED <<cfg_debug, pos, text, cur, spans, err, path, terminals, input, toks>>

\* The end of from_spanned_str without the test of errs.
LoopEnd_always_ok ==
    /\ pc = "loop"
    /\ input.content = <<>>
    /\ pc' = "returned"
    /\ call' = [op |-> "return", n |-> call.n, returned |-> [ok |-> TRUE, toks |-> toks]]
    /\ UNCHANGED <<cfg_debug, pos, text, cur, spans, err, path, terminals, input,
                   toks, errs>>

\* The loop condition fails: Ok(Lexer(toks)) when errs is empty, else
\* Err(errs).
LoopEnd ==
    /\ pc = "loop"
    /\ input.content = <<>>
    /\ pc' = "returned"
    /\ call' = [op |-> "return", n |-> call.n,
                returned |-> IF errs = <<>> THEN [ok |-> TRUE, toks |-> toks]
                             ELSE [ok |-> FALSE, errs |-> errs]]
    /\ UNCHANGED <<cfg_debug, pos, text, cur, spans, err, path, terminals, input,
                   toks, errs>>

NextLexer == TokOk \/ ErrSomeTail \/ ErrNone \/ LoopEnd

SpecLexer == InitLexer /\ [][NextLexer]_vars

\* The loop runs on: a step that is possible is taken.
SpecLexerFair == InitLexerOne /\ [][NextLexer]_vars /\ WF_vars(NextLexer)

\* ------------------------------------------------ helpers of the claims

\* The byte length of a string, counted from its last character.
RECURSIVE Utf8Len(_)
Utf8Len(s) ==
    IF Len(s) = 0 THEN 0
    ELSE Utf8Len(SubSeq(s, 1, Len(s) - 1)) + (IF s[Len(s)] = "E" THEN 2 ELSE 1)

\* The byte indices a string can be cut at.
Boundaries(s) == {Utf8Len(SubSeq(s, 1, k)) : k \in 0..Len(s)}

\* The places of the line feeds of s.
LineFeeds(s) == {k \in 1..Len(s) : s[k] = LF}

SetMax(S) == CHOOSE x \in S : \A y \in S : y <= x
SetMin(S) == CHOOSE x \in S : \A y \in S : x <= y

\* How many times x occurs in the sequence seq.
Count(x, seq) == Cardinality({i \in 1..Len(seq) : seq[i] = x})

Elems(seq) == {seq[i] : i \in 1..Len(seq)}

\* The length invariant of a SpannedStr.
LengthMatchesSpan(s) ==
    /\ s.span.start.offset <= s.span.end.offset
    /\ Utf8Len(s.content) = s.span.end.offset - s.span.start.offset

\* ---------------------------------------------------------------- claims

\* C1: for an index n that is a char boundary of s.content, s.split_at(n)
\* returns (left, right) whose contents concatenate to s.content, with
\* left.span.start = s.span.start, right.span.end = s.span.end and
\* left.span.end = right.span.start (line, col and offset).
C1_SplitAtCoversAndIsContiguous ==
    (call.op = "split_at" /\ call.idx \in Boundaries(call.self.content)) =>
        /\ ~call.panicked
        /\ call.ret[1].content \o call.ret[2].content = call.self.content
        /\ call.ret[1].span.start = call.self.span.start
        /\ call.ret[2].span.end = call.self.span.end
        /\ call.ret[1].span.end = call.ret[2].span.start

\* A split strictly inside a slice that starts after a line feed of the
\* input, with a two-byte character on the left.
C1_Witness ==
    /\ call.op = "split_at" /\ ~call.panicked
    /\ call.self.span.start.line > 0
    /\ call.ret[1].content = <<"E">>
    /\ call.ret[2].content # <<>>

\* C2: s.take_while(P) returns (prefix, rest) where every character of
\* prefix satisfies P and rest is empty or starts with a character failing
\* P; it equals s.split_at(i), i the byte index of the first character
\* failing P or the length; on an empty s both halves equal s.
C2_TakeWhileLongestPrefix ==
    call.op = "take_while" =>
        LET s == call.self.content
            n == CHOOSE n \in 0..Len(s) :
                    /\ \A k \in 1..n : s[k] \in call.f
                    /\ n = Len(s) \/ s[n + 1] \notin call.f
            i == Utf8Len(SubSeq(s, 1, n))
        IN  /\ ~call.panicked
            /\ \A k \in 1..Len(call.ret[1].content) :
                    call.ret[1].content[k] \in call.f
            /\ \/ call.ret[2].content = <<>>
               \/ Head(call.ret[2].content) \notin call.f
            /\ ~split_at(call.self, i).panicked
            /\ call.ret = split_at(call.self, i).ret
            /\ s = <<>> => call.ret = <<call.self, call.self>>

\* take_while stops in the middle of the slice, after a two-byte character.
C2_Witness ==
    /\ call.op = "take_while" /\ ~call.panicked
    /\ Len(call.ret[1].content) >= 2
    /\ "E" \in Elems(call.ret[1].content)
    /\ call.ret[2].content # <<>>

\* C3: every SpannedStr reachable from input_file(T) or spanned_str() by
\* split_at and take_while has a content whose byte length is
\* span.end.offset - span.start.offset, with start.offset <= end.offset.
C3_LengthMatchesSpan ==
    /\ LengthMatchesSpan(cur)
    /\ call.op \in {"input_file", "spanned_str"} => LengthMatchesSpan(call.ret)
    /\ (call.op \in {"split_at", "take_while"} /\ ~call.panicked) =>
            LengthMatchesSpan(call.ret[1]) /\ LengthMatchesSpan(call.ret[2])

\* A slice strictly inside the input, got by a split of a split, holding a
\* two-byte character.
C3_Witness ==
    /\ call.op \in {"split_at", "take_while"} /\ ~call.panicked
    /\ call.self.content # text
    /\ cur.content # call.self.content
    /\ cur.span.start.offset > 0
    /\ "E" \in Elems(cur.content)

\* C4: p.advance_with(s) has line = p.line + the number of line feeds of s,
\* col = the number of characters of s after its last line feed (plus p.col
\* when s has none), offset = p.offset + the byte length of s; on the empty
\* string it is p.
C4_AdvanceWith ==
    call.op = "advance_with" =>
        LET s == call.s
            lfs == LineFeeds(s)
        IN  /\ call.ret.line = call.self.line + Cardinality(lfs)
            /\ call.ret.col = IF lfs = {} THEN call.self.col + Len(s)
                              ELSE Len(s) - SetMax(lfs)
            /\ call.ret.offset = call.self.offset + Utf8Len(s)
            /\ s = <<>> => call.ret = call.self

\* An advance from a position with a column, over a line feed followed by a
\* two-byte character.
C4_Witness ==
    /\ call.op = "advance_with"
    /\ call.self.col > 0 /\ call.self.line > 0
    /\ Len(call.s) = MaxLen
    /\ LineFeeds(call.s) # {}
    /\ call.s[Len(call.s)] = "E"

\* C5: p.cmp(q) is the ordering of the two offsets, whatever the lines and
\* columns: the compiled body (cfg(not(debug)), the one every cargo profile
\* builds) always returns it, and the cfg(debug) body returns nothing else
\* when it returns.
C5_CmpIsOffsetOrder ==
    call.op = "cmp" =>
        /\ ~cfg_debug => ~call.panicked
        /\ ~call.panicked =>
                call.ret = IF call.self.offset < call.other.offset THEN "Less"
                           ELSE IF call.self.offset > call.other.offset THEN "Greater"
                           ELSE "Equal"

\* A comparison where the (line, col) order is the opposite of the offset
\* order, as in the test ord_only_cares_about_offset.
C5_Witness ==
    /\ call.op = "cmp" /\ ~cfg_debug
    /\ call.self.offset > call.other.offset
    /\ call.self.line < call.other.line
    /\ call.self.col < call.other.col
    /\ call.ret = "Greater"

\* The spans of an error, as a set: the primary span and the annotations'.
SpanSet(e) == {e.span} \cup {e.annotations[i].span : i \in 1..Len(e.annotations)}

AllSingleLine(e) ==
    \A i \in 1..Len(e.annotations) :
        e.annotations[i].span.start.line = e.annotations[i].span.end.line

\* The matrix entries of the annotations of e that start on a line, in call
\* order.
EntriesOfLine(e, line) ==
    LET on == SelectSeq(e.annotations, LAMBDA a : a.span.start.line = line)
    IN  [i \in 1..Len(on) |->
            ReportedAnnotation(on[i].span.start.col,
                               on[i].span.end.col - on[i].span.start.col,
                               on[i].content)]

\* C6: bounds() is (min, max), min the start of least offset and max the
\* end of greatest offset over the primary span and the annotation spans;
\* so min.offset <= primary.start.offset, max.offset >= primary.end.offset,
\* and without annotations bounds() is (primary.start, primary.end).
C6_BoundsMinStartMaxEnd ==
    call.op = "format_error" =>
        LET b == call.bounds
        IN  /\ ~b.panicked
            /\ b.min \in {sp.start : sp \in SpanSet(err)}
            /\ b.max \in {sp.end : sp \in SpanSet(err)}
            /\ \A sp \in SpanSet(err) :
                    b.min.offset <= sp.start.offset /\ sp.end.offset <= b.max.offset
            /\ b.min.offset <= err.span.start.offset
            /\ err.span.end.offset <= b.max.offset
            /\ err.annotations = <<>> =>
                    b.min = err.span.start /\ b.max = err.span.end

\* The bounds start at one annotation and end at the other; the primary
\* span is strictly inside.
C6_Witness ==
    /\ call.op = "format_error"
    /\ Len(err.annotations) = 2
    /\ call.bounds.min = err.annotations[2].span.start
    /\ call.bounds.max = err.annotations[1].span.end
    /\ call.bounds.min.offset < err.span.start.offset
    /\ err.span.end.offset < call.bounds.max.offset

\* C7: when every annotation is on one line, error_matrix() has
\* bounds().end.line - bounds().start.line + 1 rows and holds every
\* annotation exactly once, in row span.start.line - bounds().start.line,
\* with col_number = span.start.col and length = span.end.col -
\* span.start.col; the primary span adds no entry and a line without
\* annotation has an empty row.
C7_MatrixRowsAndEntries ==
    (call.op = "format_error" /\ AllSingleLine(err)) =>
        LET b == call.bounds
            m == call.matrix.matrix
        IN  /\ ~call.matrix.panicked
            /\ Len(m) = b.max.line - b.min.line + 1
            /\ \A r \in 1..Len(m) :
                    LET want == EntriesOfLine(err, b.min.line + r - 1)
                    IN  \A x \in Elems(m[r]) \cup Elems(want) :
                            Count(x, m[r]) = Count(x, want)
            /\ \A i \in 1..Len(err.annotations) :
                    err.annotations[i].span.start.line - b.min.line + 1 \in 1..Len(m)

\* Three rows for a primary span over three lines: an annotation in the
\* last row, one in the first, none in the middle.
C7_Witness ==
    /\ call.op = "format_error" /\ ~call.matrix.panicked
    /\ Len(call.matrix.matrix) = 3
    /\ Len(call.matrix.matrix[1]) = 1
    /\ call.matrix.matrix[2] = <<>>
    /\ Len(call.matrix.matrix[3]) = 1
    /\ err.annotations[1].span.start.line = 2

\* C8: in every row of error_matrix() the annotations are in non-decreasing
\* order of start column, whatever the order of the with_annotation calls,
\* and annotations of equal start column keep their call order.
C8_RowsSortedStable ==
    (call.op = "format_error" /\ ~call.matrix.panicked) =>
        LET b == call.bounds
            m == call.matrix.matrix
        IN  \A r \in 1..Len(m) :
                /\ \A i, j \in 1..Len(m[r]) :
                        i < j => m[r][i].col_number <= m[r][j].col_number
                /\ \A c \in {m[r][i].col_number : i \in 1..Len(m[r])} :
                        SelectSeq(m[r], LAMBDA x : x.col_number = c)
                            = SelectSeq(EntriesOfLine(err, b.min.line + r - 1),
                                        LAMBDA x : x.col_number = c)

\* Two annotations of one line, added right to left.
C8_Witness ==
    /\ call.op = "format_error" /\ ~call.matrix.panicked
    /\ Len(err.annotations) = 2
    /\ err.annotations[1].span.start.line = err.annotations[2].span.start.line
    /\ err.annotations[1].span.start.col > err.annotations[2].span.start.col
    /\ \E r \in 1..Len(call.matrix.matrix) : Len(call.matrix.matrix[r]) = 2

\* Two different annotations of one line with the same start column.
C8_WitnessTie ==
    /\ call.op = "format_error" /\ ~call.matrix.panicked
    /\ Len(err.annotations) = 2
    /\ err.annotations[1].span.start = err.annotations[2].span.start
    /\ err.annotations[1].span.end.col > err.annotations[2].span.end.col
    /\ \E r \in 1..Len(call.matrix.matrix) : Len(call.matrix.matrix[r]) = 2

\* C9: for every FormattedError of format_error on an error whose spans lie
\* inside the reporter's content, text.lines().count() = errors.len(),
\* also for spans that end just after a line break and for an empty input.
C9_SnippetLinesEqualRows ==
    (call.op = "format_error" /\ ~call.panicked) =>
        Len(lines(call.ret.text)) = Len(call.ret.errors)

\* C10: code_snippet_for(start, end) is the content from the first byte
\* after the last line break before start.offset (or from byte 0) up to the
\* first line break at or after end.offset (or the end of the content).
C10_SnippetIsWholeLines ==
    (call.op = "format_error" /\ ~call.bounds.panicked) =>
        LET start_offset == call.bounds.min.offset
            end_offset == call.bounds.max.offset
            before == {k \in LineFeeds(text) :
                          Utf8Len(SubSeq(text, 1, k - 1)) < start_offset}
            after == {k \in LineFeeds(text) :
                         Utf8Len(SubSeq(text, 1, k - 1)) >= end_offset}
            first == IF before = {} THEN 1 ELSE SetMax(before) + 1
            last == IF after = {} THEN Len(text) ELSE SetMin(after) - 1
        IN  /\ ~call.snippet.panicked
            /\ call.snippet.text = SubSeq(text, first, last)

\* The snippet of an empty span at the end of a two-byte character that
\* follows a line break: the line is extended to the left up to the break.
C10_Witness ==
    /\ call.op = "format_error" /\ ~call.snippet.panicked
    /\ text = <<LF, "E">>
    /\ call.bounds.min.offset = 3 /\ call.bounds.max.offset = 3
    /\ call.snippet.text = <<"E">>

\* A snippet cut at a line break on its right, for a span before the break.
C10_WitnessRight ==
    /\ call.op = "format_error" /\ ~call.snippet.panicked
    /\ text = <<"E", LF>>
    /\ call.bounds.min.offset = 0 /\ call.bounds.max.offset = 0
    /\ call.snippet.text = <<"E">>

\* ------------------------------------------------- the rendered report

\* A number below ten as `{}` writes it (all the line and column numbers
\* within the bounds).
Numeral(n) == <<ToString(n)>>

\* The lines of the report written for the rows before row r of the matrix
\* m: the header, the first gutter line, and for every earlier row its
\* source line, its underline row, its connector lines and its gutter line.
RECURSIVE LinesBefore(_, _)
LinesBefore(m, r) == IF r = 1 THEN 3 ELSE LinesBefore(m, r - 1) + Len(m[r - 1]) + 3

\* A rendering that returned.
Rendered == call.op = "to_string" /\ ~call.panicked

\* The number of blocks of a rendering: the lines of the snippet.
Blocks == Len(lines(call.self.text))

\* The greatest message length over the annotations of the error, or 0.
MaxMsgLen(e) ==
    IF e.annotations = <<>> THEN 0
    ELSE SetMax({Len(e.annotations[i].content) : i \in 1..Len(e.annotations)})

\* What starts the underline row and the connector lines, before column 0
\* of the source: "     | ", then the blanks under the messages. The
\* underline row has one more blank.
Margin(e) == <<" ", " ", " ", " ", " ", "|", " ">> \o [i \in 1..MaxMsgLen(e) |-> " "]

\* The line of number n (from 0) of the text t, without its line feed.
DocLine(t, n) ==
    LET lfs == LineFeeds(t)
        before == {k \in lfs : Cardinality({j \in lfs : j <= k}) = n}
        from == IF n = 0 THEN 1 ELSE SetMax(before) + 1
        after == {k \in lfs : k >= from}
        to == IF after = {} THEN Len(t) ELSE SetMin(after) - 1
    IN  SubSeq(t, from, to)

\* C11: the report starts with the line "Error: <message>", then the line
\* " --> <name>:<L>:<C>" for a reporter with a name and " --> <L>:<C>" for
\* one without, L = primary span start line + 1 and C = primary span start
\* col + 1, whatever bounds() and the annotations are.
C11_HeaderFromPrimarySpan ==
    Rendered =>
        /\ call.ret[1] = <<"Error: ">> \o err.msg
        /\ call.ret[2] = <<" ", "-", "-", ">", " ">>
                            \o (IF path = <<>> THEN <<>> ELSE path[1] \o <<":">>)
                            \o Numeral(err.span.start.line + 1) \o <<":">>
                            \o Numeral(err.span.start.col + 1)

\* A named reporter and a primary span that starts on the second line,
\* after its first column, while the bounds start at an annotation of the
\* first line.
C11_Witness ==
    /\ Rendered /\ path # <<>>
    /\ err.span.start.line = 1 /\ err.span.start.col = 1
    /\ Len(err.annotations) = 1
    /\ err.annotations[1].span.start = BEGINNING
    /\ call.bounds.min = BEGINNING

\* A reporter without a name, for the same kind of error.
C11_WitnessNoName ==
    /\ Rendered /\ path = <<>>
    /\ err.span.start.line = 1 /\ err.span.start.col = 1
    /\ call.bounds.min = BEGINNING

\* C12: in the underline row of every block, after the margin, each
\* annotation of the row is a single "|" when its length is 0 or 1 and "^"
\* length times when its length is greater; everything else is blank and
\* the row ends with the last marker, so that the blanks between two
\* markers are the columns between the end of one and the start of the next.
C12_UnderlineMarkers ==
    Rendered =>
        \A r \in 1..Blocks :
            LET row == call.self.errors[r]
                line == call.ret[LinesBefore(call.self.errors, r) + 2]
                lead == Margin(err) \o <<" ">>
                marks == SubSeq(line, Len(lead) + 1, Len(line))
                width(k) == IF row[k].length <= 1 THEN 1 ELSE row[k].length
                over(c) == {k \in 1..Len(row) :
                                row[k].col_number < c /\ c <= row[k].col_number + width(k)}
            IN  /\ Len(line) >= Len(lead)
                /\ SubSeq(line, 1, Len(lead)) = lead
                /\ Len(marks) = IF row = <<>> THEN 0
                                ELSE row[Len(row)].col_number + width(Len(row))
                /\ \A c \in 1..Len(marks) :
                        /\ over(c) = {} => marks[c] = " "
                        /\ \A k \in over(c) :
                                marks[c] = IF row[k].length <= 1 THEN "|" ELSE "^"

\* A row with a bar for a span of one character, one blank, and a bar for
\* an empty span.
C12_Witness ==
    /\ Rendered
    /\ \E r \in 1..Blocks :
            /\ Len(call.self.errors[r]) = 2
            /\ call.self.errors[r][1].length = 1
            /\ call.self.errors[r][1].col_number = 0
            /\ call.self.errors[r][2].length = 0
            /\ call.self.errors[r][2].col_number = 2

\* A row with a marker of two carets, followed at once by a bar.
C12_WitnessCarets ==
    /\ Rendered
    /\ \E r \in 1..Blocks :
            /\ Len(call.self.errors[r]) = 2
            /\ call.self.errors[r][1].length = 2
            /\ call.self.errors[r][2].col_number = 2

\* C13: a row of the matrix with n annotations gets n connector lines, in
\* the order of the row (ascending columns); the k-th is "     | ", the
\* message of the k-th annotation, spacing - len(message) + col + 1 dashes
\* (spacing the greatest message length of the error), one "'", and then
\* blanks and exactly n - k bars; the line after the n-th is a gutter line.
C13_ConnectorLines ==
    Rendered =>
        \A r \in 1..Blocks :
            LET row == call.self.errors[r]
                n == Len(row)
                first == LinesBefore(call.self.errors, r) + 2
            IN  /\ \A j \in 1..(n - 1) : row[j].col_number <= row[j + 1].col_number
                /\ call.ret[first + n + 1] = <<" ", " ", " ", " ", " ", "|">>
                /\ \A k \in 1..n :
                        LET line == call.ret[first + k]
                            dashes == MaxMsgLen(err) - Len(row[k].text)
                                        + row[k].col_number + 1
                            lead == <<" ", " ", " ", " ", " ", "|", " ">> \o row[k].text
                                        \o [i \in 1..dashes |-> "-"] \o <<"'">>
                            tail == SubSeq(line, Len(lead) + 1, Len(line))
                        IN  /\ Len(line) >= Len(lead)
                            /\ SubSeq(line, 1, Len(lead)) = lead
                            /\ Elems(tail) \subseteq {" ", "|"}
                            /\ Count("|", tail) = n - k

\* Two annotations in one row, the longer message on the left one, which
\* does not start at column 0.
C13_Witness ==
    /\ Rendered
    /\ \E r \in 1..Blocks :
            /\ Len(call.self.errors[r]) = 2
            /\ call.self.errors[r][1].col_number = 1
            /\ Len(call.self.errors[r][1].text) > Len(call.self.errors[r][2].text)

\* C14: the report of an error whose bounds cover several lines has, after
\* the header and a gutter line, one block per line i of the snippet, in
\* order: the source line with the number bounds().start.line + i + 1, an
\* underline row, one connector line for each annotation whose span is on
\* that line and for no other, a gutter line. A line without annotation
\* has its source line, an underline row without marker and a gutter line.
C14_OneBlockPerLine ==
    (Rendered /\ call.bounds.min.line < call.bounds.max.line) =>
        LET m == call.self.errors
            first_line == call.bounds.min.line
        IN  /\ Len(call.ret) = LinesBefore(m, Blocks + 1)
            /\ call.ret[3] = <<" ", " ", " ", " ", " ", "|">>
            /\ \A i \in 0..(Blocks - 1) :
                    LET at == LinesBefore(m, i + 1)
                        on == EntriesOfLine(err, first_line + i)
                        connectors == SubSeq(call.ret, at + 3, at + 2 + Len(on))
                    IN  /\ call.ret[at + 1] =
                                <<" ", " ", " ">> \o Numeral(first_line + i + 1)
                                    \o <<" ", "|">> \o [j \in 1..MaxMsgLen(err) + 2 |-> " "]
                                    \o DocLine(text, first_line + i)
                        /\ SubSeq(call.ret[at + 2], 1, Len(Margin(err)) + 1)
                                = Margin(err) \o <<" ">>
                        /\ on = <<>> => call.ret[at + 2] = Margin(err) \o <<" ">>
                        /\ \A x \in Elems(on) :
                                Count(x, on) = Cardinality(
                                    {k \in 1..Len(connectors) :
                                        SubSeq(connectors[k], 8, 7 + Len(x.text)) = x.text
                                        /\ connectors[k][8 + Len(x.text)] = "-"})
                        /\ call.ret[at + 3 + Len(on)] = <<" ", " ", " ", " ", " ", "|">>

\* Two blocks, each with the annotation of its own line.
C14_Witness ==
    /\ Rendered /\ Blocks = 2
    /\ Len(call.self.errors[1]) = 1 /\ Len(call.self.errors[2]) = 1
    /\ call.self.errors[1][1].text # call.self.errors[2][1].text

\* A first block without annotation, then a block with one.
C14_WitnessBare ==
    /\ Rendered /\ Blocks = 2
    /\ call.self.errors[1] = <<>> /\ Len(call.self.errors[2]) = 1

\* ----------------------------------------------- multi-line annotations

\* C20: error_matrix, and so format_error, panics with "Multiline spans are
\* not supported" on every error with an annotation whose span starts and
\* ends on different lines, and no matrix is returned; on an error whose
\* annotations are each on one line it returns, also when the primary span
\* covers several lines.
C20_MultilineAnnotationAborts ==
    call.op = "format_error" =>
        /\ ~AllSingleLine(err) =>
                /\ call.panicked
                /\ call.matrix.panicked
                /\ call.matrix.why = "Multiline spans are not supported"
        /\ AllSingleLine(err) => ~call.panicked

\* An annotation over two lines, added after one on a single line.
C20_Witness ==
    /\ call.op = "format_error" /\ call.panicked
    /\ Len(err.annotations) = 2
    /\ err.annotations[1].span.start.line = err.annotations[1].span.end.line
    /\ err.annotations[2].span.start.line < err.annotations[2].span.end.line

\* A primary span over two lines, with an annotation on one line.
C20_WitnessPrimary ==
    /\ call.op = "format_error" /\ ~call.panicked
    /\ err.span.start.line < err.span.end.line
    /\ Len(err.annotations) = 1

\* ------------------------------------------------------------ the lexer

\* What decides from_str on an input that starts with c: the first declared
\* terminal whose lex is not None and its outcome, or "unknown" when the
\* lex of every terminal is None.
Deciding(c) ==
    LET some == {k \in 1..Len(terminals) : terminals[k][c] # "none"}
    IN  IF some = {} THEN [k |-> 0, outcome |-> "unknown"]
        ELSE [k |-> SetMin(some), outcome |-> terminals[SetMin(some)][c]]

\* The position after the first k characters of the lexed text (it has no
\* line feed), and the span of its k-th character.
After(k) == [line |-> 0, col |-> k, offset |-> Utf8Len(SubSeq(text, 1, k))]
CharSpan(k) == [start |-> After(k - 1), end |-> After(k)]

\* An error, as its primary span and the first symbol of its message.
Tagged(e) == <<e.span, e.msg[1]>>

\* The errors the k-th character of the text gives, tagged.
ErrsOf(k) ==
    LET o == Deciding(text[k]).outcome
    IN  CASE o \in {"err_tail", "err_stay", "fatal"} -> <<(<<CharSpan(k), "Expected">>)>>
          [] o = "err_two" -> <<(<<CharSpan(k), "Expected">>), (<<CharSpan(k), "Second">>)>>
          [] o = "unknown" -> <<(<<CharSpan(k), "Unknown start of token: ">>)>>
          [] OTHER -> <<>>

\* The errors of the first k characters of the text, in input order.
RECURSIVE ErrsUpTo(_)
ErrsUpTo(k) == IF k = 0 THEN <<>> ELSE ErrsUpTo(k - 1) \o ErrsOf(k)

\* The place of the first character of the text that is a fatal error, or 0.
FirstFatal ==
    LET fatal == {k \in 1..Len(text) : Deciding(text[k]).outcome \in {"fatal", "unknown"}}
    IN  IF fatal = {} THEN 0 ELSE SetMin(fatal)

\* Every step on the first k characters of the text consumes its character.
Consumes(k) ==
    \A j \in 1..k : Deciding(text[j]).outcome \notin {"ok_empty", "err_stay"}

\* C15: on Err((errors, Some(tail))) the errors are appended to errs, the
\* input becomes tail and the loop goes on; on an input whose every failure
\* is recoverable the whole input is scanned and the Err returned holds the
\* errors of every failing step, in input order (n characters that each
\* give one recoverable error give n errors).
C15_RecoverableErrorsAccumulate ==
    /\ (call.op = "from_str" /\ ~call.ret.ok /\ call.ret.tail # <<>>) =>
            /\ pc = "loop"
            /\ input = call.ret.tail[1]
            /\ Len(errs) >= Len(call.ret.errors)
            /\ SubSeq(errs, Len(errs) - Len(call.ret.errors) + 1, Len(errs))
                    = call.ret.errors
    /\ (pc = "returned" /\ FirstFatal = 0 /\ Consumes(Len(text))) =>
            /\ call.n = Len(text)
            /\ [i \in 1..Len(errs) |-> Tagged(errs[i])] = ErrsUpTo(Len(text))
            /\ errs # <<>> => ~call.returned.ok /\ call.returned.errs = errs
            /\ (\A k \in 1..Len(text) : Deciding(text[k]).outcome = "err_tail")
                    => Len(errs) = Len(text)

\* Two errors for the first character, one for the second: three errors
\* are returned.
C15_Witness ==
    /\ pc = "returned" /\ FirstFatal = 0
    /\ Len(text) = 2 /\ Len(errs) = 3
    /\ Deciding(text[1]).outcome = "err_two"
    /\ Deciding(text[2]).outcome = "err_tail"

\* As many errors as characters.
C15_WitnessEach ==
    /\ pc = "returned" /\ Len(text) = MaxSrc /\ Len(errs) = MaxSrc
    /\ \A k \in 1..Len(text) : Deciding(text[k]).outcome = "err_tail"

\* C16: on Err((errors, None)) the errors are appended and Err(errs) is
\* returned at once, no from_str call follows; the errors returned are
\* those of the earlier recoverable steps, then those of the fatal step (two
\* characters no terminal knows give one error).
C16_FatalErrorStops ==
    /\ (call.op = "from_str" /\ ~call.ret.ok /\ call.ret.tail = <<>>) =>
            /\ pc = "returned"
            /\ ~ENABLED NextLexer
            /\ call.returned = [ok |-> FALSE, errs |-> errs]
            /\ Len(errs) >= Len(call.ret.errors)
            /\ SubSeq(errs, Len(errs) - Len(call.ret.errors) + 1, Len(errs))
                    = call.ret.errors
    /\ (pc = "returned" /\ FirstFatal > 0) =>
            /\ call.op = "from_str" /\ ~call.ret.ok /\ call.ret.tail = <<>>
            /\ call.n = FirstFatal
            /\ [i \in 1..Len(errs) |-> Tagged(errs[i])] = ErrsUpTo(FirstFatal)
    /\ (pc = "returned" /\ Len(text) > 1
            /\ \A k \in 1..Len(text) : Deciding(text[k]).outcome = "unknown")
            => Len(errs) = 1

\* A recoverable error, then a fatal one.
C16_Witness ==
    /\ pc = "returned" /\ FirstFatal = 2
    /\ Deciding(text[1]).outcome = "err_tail"
    /\ Len(errs) = 2

\* Two characters that no terminal knows: one error.
C16_WitnessUnknown ==
    /\ pc = "returned" /\ Len(text) = 2 /\ Len(errs) = 1
    /\ \A k \in 1..Len(text) : Deciding(text[k]).outcome = "unknown"

\* C17: from_spanned_str returns Ok(tokens) exactly when the input was
\* consumed to its end and no step gave an error; after a recoverable error
\* it returns Err with the errors, also when the whole input was scanned and
\* later tokens were lexed; on an empty input it returns Ok with no token
\* and without a from_str call.
C17_OkIffNoError ==
    pc = "returned" =>
        /\ call.returned.ok <=> (input.content = <<>> /\ errs = <<>>)
        /\ call.returned.ok <=>
                \A k \in 1..Len(text) : Deciding(text[k]).outcome = "ok"
        /\ call.returned.ok => call.returned.toks = toks /\ Len(toks) = Len(text)
        /\ ~call.returned.ok => call.returned.errs = errs /\ errs # <<>>
        /\ text = <<>> => call.returned.ok /\ toks = <<>> /\ call.n = 0

\* A recoverable error on the first character, then a token, and Err.
C17_Witness ==
    /\ pc = "returned" /\ ~call.returned.ok
    /\ input.content = <<>>
    /\ Len(errs) = 1 /\ Len(toks) = 1
    /\ toks[1].span.start.offset > errs[1].span.start.offset

\* The empty input.
C17_WitnessEmpty ==
    /\ pc = "returned" /\ text = <<>> /\ call.returned.ok

\* C18: from_str returns what the first declared terminal whose lex is not
\* None returns, a success or an error, and calls the lex of no later
\* terminal; when every lex is None it returns a fatal error (no tail) with
\* exactly one AnnotatedError, whose primary span and only annotation are
\* the span of the first character of the input.
C18_FirstTerminalDecides ==
    call.op = "from_str" =>
        LET c == Head(call.input.content)
            d == Deciding(c)
            r == call.ret
            from == call.input.span.start
            sp == [start |-> from,
                   end |-> [line |-> from.line, col |-> from.col + 1,
                            offset |-> from.offset + (IF c = "E" THEN 2 ELSE 1)]]
        IN  IF d.k = 0
            THEN /\ ~r.ok /\ r.tail = <<>>
                 /\ Len(r.errors) = 1
                 /\ r.errors[1].span = sp
                 /\ Len(r.errors[1].annotations) = 1
                 /\ r.errors[1].annotations[1].span = sp
                 /\ r.lexed = Len(terminals)
            ELSE /\ r.lexed = d.k
                 /\ r.ok <=> d.outcome \in {"ok", "ok_empty"}
                 /\ r.ok => /\ r.tok.kind = d.k
                            /\ r.tok.span = lex(terminals[d.k], call.input).span
                            /\ r.tail = lex(terminals[d.k], call.input).tail
                 /\ ~r.ok => /\ r.errors = lex(terminals[d.k], call.input).errors
                             /\ r.tail = lex(terminals[d.k], call.input).tail

\* The first terminal gives an error where the second would give a token.
C18_Witness ==
    /\ call.op = "from_str" /\ ~call.ret.ok
    /\ terminals[1][Head(call.input.content)] = "err_tail"
    /\ terminals[2][Head(call.input.content)] = "ok"

\* No terminal knows the two-byte character met after the start of the input.
C18_WitnessUnknown ==
    /\ call.op = "from_str"
    /\ Deciding(Head(call.input.content)).k = 0
    /\ Head(call.input.content) = "E"
    /\ call.input.span.start.offset > 0

C21_SplitAtPanicsOffBoundary ==
    call.op = "split_at" =>
        LET bad == \/ call.idx > Utf8Len(call.self.content)
                   \/ call.idx \notin Boundaries(call.self.content)
        IN  /\ call.panicked <=> bad
            /\ bad => cur = call.self /\ ~ENABLED NextSlice

\* A split in the middle of the two-byte character of a slice that is not
\* the whole input.
C21_Witness ==
    /\ call.op = "split_at" /\ call.panicked
    /\ call.self.content # text
    /\ call.idx < Utf8Len(call.self.content)
    /\ call.idx > 0

\* A split past the end of a slice.
C21_WitnessPastEnd ==
    /\ call.op = "split_at" /\ call.panicked
    /\ call.idx = Utf8Len(call.self.content) + 1
    /\ call.self.content # <<>>

\* ------------------------------------------------ the last claims on spans

\* C22: s.next_char() starts at s.end and ends on the line of s.end, one
\* column and one byte further; it is the same for every span that ends at
\* s.end, whatever its start.
C22_NextCharFollowsEnd ==
    call.op = "next_char" =>
        /\ call.ret.start = call.self.end
        /\ call.ret.end = [line |-> call.self.end.line,
                           col |-> call.self.end.col + 1,
                           offset |-> call.self.end.offset + 1]
        /\ \A start \in Positions :
                next_char([start |-> start, end |-> call.self.end]) = call.ret

\* next_char of a span that covers several lines and ends off column 0.
C22_Witness ==
    /\ call.op = "next_char"
    /\ call.self.start.line < call.self.end.line
    /\ call.self.start.offset < call.self.end.offset
    /\ call.self.end.col > 0
    /\ call.self.start.col # call.self.end.col

\* -------------------------------------------- the order of the positions

\* The ordering of two positions by offset, and by line then column.
OffsetOrd(p, q) ==
    IF p.offset < q.offset THEN "Less"
    ELSE IF p.offset > q.offset THEN "Greater" ELSE "Equal"

LineColOrd(p, q) ==
    IF p.line < q.line \/ (p.line = q.line /\ p.col < q.col) THEN "Less"
    ELSE IF p.line = q.line /\ p.col = q.col THEN "Equal" ELSE "Greater"

\* C25, as claimed: in the build with --cfg debug, p.cmp(q) returns the
\* ordering of the offsets, panics only when that ordering differs from the
\* ordering by (line, col), and does not panic on two positions of the same
\* input unit.
C25_DebugCmpPanicsOnlyOnInconsistency ==
    (call.op = "cmp" /\ cfg_debug) =>
        /\ call.panicked => OffsetOrd(call.self, call.other) # LineColOrd(call.self, call.other)
        /\ ~call.panicked
        /\ call.ret = OffsetOrd(call.self, call.other)

\* C26: two positions got by advancing BEGINNING over prefixes of the same
\* text are ordered by offset as they are by (line, col), and are equal in
\* line and col when equal in offset: the result of cmp is Equal exactly
\* when the derived == holds.
C26_SameUnitOrdersAgree ==
    call.op = "cmp" =>
        /\ OffsetOrd(call.self, call.other) = LineColOrd(call.self, call.other)
        /\ call.self.offset = call.other.offset => call.self = call.other
        /\ ~call.panicked => (call.ret = "Equal" <=> call.self = call.other)

\* A position reached in two advances, on a later line and a smaller column
\* than the position it is compared with.
C26_Witness ==
    /\ call.op = "cmp" /\ ~call.panicked
    /\ call.ret = "Greater"
    /\ call.self.line > call.other.line
    /\ call.self.col < call.other.col
    /\ call.self.offset > Len(text)

\* Two equal positions.
C26_WitnessEqual ==
    /\ call.op = "cmp" /\ ~call.panicked
    /\ call.ret = "Equal"
    /\ call.self.line > 0

\* ------------------------------------------------- slices of the input

\* The slice s is the part of the input unit between two of its char
\* boundaries, and its span holds the positions of these two boundaries as
\* counted from the beginning of the input unit.
ExactSlice(s) ==
    \E i \in 0..Len(text), j \in 0..Len(text) :
        /\ i <= j
        /\ s.span.start.offset = Utf8Len(SubSeq(text, 1, i))
        /\ s.span.end.offset = Utf8Len(SubSeq(text, 1, j))
        /\ s.content = SubSeq(text, i + 1, j)
        /\ s.span.start = advance_with(BEGINNING, SubSeq(text, 1, i))
        /\ s.span.end = advance_with(BEGINNING, SubSeq(text, 1, j))

\* C27: every slice reached from the whole input T by split_at and
\* take_while, however nested, has content = T[start.offset .. end.offset]
\* and a span whose start and end are BEGINNING advanced over
\* T[.. start.offset] and T[.. end.offset].
C27_SlicesStayExact ==
    /\ ExactSlice(cur)
    /\ (call.op \in {"split_at", "take_while"} /\ ~call.panicked) =>
            ExactSlice(call.ret[1]) /\ ExactSlice(call.ret[2])

\* A split of a slice that starts inside the first line, the right half
\* starting on a later line.
C27_Witness ==
    /\ call.op \in {"split_at", "take_while"} /\ ~call.panicked
    /\ call.self.content # text
    /\ call.self.span.start.col > 0
    /\ call.ret[2].span.start.line > call.self.span.start.line
    /\ call.ret[2].content # <<>>
    /\ cur = call.ret[2]

\* ------------------------------------------------- the tokens of the lexer

\* The token of the k-th character of the text: the terminal that decides
\* on it, and its span.
TokOf(k) == [kind |-> Deciding(text[k]).k, span |-> CharSpan(k)]

\* C24: the first from_str call gets the whole input and every later call
\* the tail the call before it returned; a successful call adds its token
\* at the end of toks; when Ok is returned, the list holds one token per
\* call, those of the characters of the input in their order.
C24_TokensInInputOrder ==
    /\ (call.op = "from_str" /\ call.n = 1) => call.input = input_file(text)
    /\ (call.op = "from_str" /\ call.ret.ok) =>
            /\ input = call.ret.tail
            /\ toks # <<>>
            /\ toks[Len(toks)] = call.ret.tok
    /\ (call.op = "from_str" /\ call.n <= Len(text) /\ Consumes(call.n - 1)) =>
            /\ call.input.content = SubSeq(text, call.n, Len(text))
            /\ call.input.span = [start |-> After(call.n - 1), end |-> After(Len(text))]
    /\ (call.op = "return" /\ call.returned.ok) =>
            /\ call.n = Len(text)
            /\ call.returned.toks = [k \in 1..Len(text) |-> TokOf(k)]

\* Ok with two tokens of two terminals, the first of a two-byte character.
C24_Witness ==
    /\ call.op = "return" /\ call.returned.ok
    /\ Len(call.returned.toks) = MaxSrc
    /\ call.returned.toks[1].kind # call.returned.toks[2].kind
    /\ text[1] = "E"

\* ------------------------------------------------ formatting, twice over

SourceColumn(r, c) ==
    LET at == LinesBefore(call.self.errors, r)
    IN  Len(call.ret[at + 1]) - Len(lines(call.self.text)[r]) + c + 1

\* C28, as claimed: for every annotation of every row, the first character
\* of its marker in the underline row, the quote that ends its connector
\* line and the bar drawn for it on the connector lines of the annotations
\* to its left stand at the output column of the first annotated character
\* in the source line above, whatever the messages are.
C28_MarkersAligned ==
    Rendered =>
        \A r \in 1..Blocks :
            LET row == call.self.errors[r]
                at == LinesBefore(call.self.errors, r)
                under == call.ret[at + 2]
                width(k) == IF row[k].length <= 1 THEN 1 ELSE row[k].length
            IN  \A i \in 1..Len(row) :
                    LET column == SourceColumn(r, row[i].col_number)
                    IN  /\ Len(under) >= column
                        /\ under[column] = IF row[i].length <= 1 THEN "|" ELSE "^"
                        /\ \A c \in 8..(column - 1) :
                                under[c] # " " =>
                                    \E k \in 1..(i - 1) :
                                        c < SourceColumn(r, row[k].col_number) + width(k)
                        /\ Len(call.ret[at + 2 + i]) >= column
                        /\ call.ret[at + 2 + i][column] = "'"
                        /\ \A j \in 1..(i - 1) :
                                /\ Len(call.ret[at + 2 + j]) >= column
                                /\ call.ret[at + 2 + j][column] = "|"

\* C29, as claimed: the rendering of an error whose annotations are on one
\* line each and inside the source returns a text, wherever the annotations
\* of a line stand with respect to each other (apart, overlapping, nested,
\* at the same column).
C29_RenderingNeverUnderflows ==
    (call.op = "to_string" /\ AllSingleLine(err)) =>
        /\ ~call.format_error_panicked
        /\ ~call.panicked

\* --------------------------------------------- the end of the input unit

\* The span after the whole input.
EofSpan == next_char(of_file(text))

\* C30, as claimed: an error whose primary span or one of whose annotation
\* spans is the span after the whole input is formatted by the reporter of
\* that input: code_snippet_for returns, and the snippet ends with the last
\* line of the source.
C30_EndOfInputIsFormatted ==
    (call.op = "format_error" /\ EofSpan \in SpanSet(err) /\ AllSingleLine(err)) =>
        LET last == DocLine(text, Cardinality(LineFeeds(text)))
            snippet == call.snippet.text
        IN  /\ ~call.snippet.panicked
            /\ ~call.panicked
            /\ Len(snippet) >= Len(last)
            /\ SubSeq(snippet, Len(snippet) - Len(last) + 1, Len(snippet)) = last

====
